---------------------------- MODULE Spec2Model ----------------------------
(***************************************************************************)
(* A model of interp.py: the molecule notation parser (parse_molecule),    *)
(* the adjacency builder (build_graph), the cycle detector (find_cycle)    *)
(* and the layout engine (place_atoms).                                    *)
(*                                                                         *)
(* Spec explores place_atoms on the molecules that lie within MaxEdits     *)
(* connection edits of three fixtures (a ring with a substituent, a linear *)
(* chain, a single atom with a lone pair).  SpecParse explores             *)
(* parse_molecule, and place_atoms after it, on the texts within           *)
(* MaxTextEdits token replacements of two short fixture texts.  LiveSpec   *)
(* is Spec with the fairness of a run that takes every step it can.        *)
(*                                                                         *)
(* Coordinates are exact: a number is <<a, b>>, read (a + b*sqrt(3)) / 2,  *)
(* which holds cos and sin of every multiple of 30 degrees.  The floating  *)
(* point rounding of math.cos / math.sin / math.sqrt is not modelled.      *)
(***************************************************************************)
EXTENDS Integers, Sequences, FiniteSets, TLC

VARIABLES
    text,       \* parse_molecule: input_str, as a sequence of tokens
    pc,         \* position in the run
    atoms,      \* the molecule: keys (labels in dict order), charge and conn by label
    cycle,      \* place_atoms: cycle (<<>> is None)
    entered,    \* find_cycle: the nodes dfs was called on, in call order
    positions,  \* place_atoms: positions
    queue,      \* place_atoms: queue
    current,    \* place_atoms: current
    idx,        \* place_atoms: index of the connection the for loop is at
    dequeued,   \* place_atoms: every label popleft has returned, in order
    err         \* the exception that ended the run, <<function, exception>>; <<>> when none

vars == <<text, pc, atoms, cycle, entered, positions, queue, current,
          idx, dequeued, err>>

MaxEdits == 2
MaxTextEdits == 1

\* Python's None where a label may stand: <<>>, and <<label>> for a label
None == <<>>

\* current before the loop has assigned it
Unbound == ""

Range(s) == {s[i] : i \in 1..Len(s)}

NoDup(s) == \A i, j \in 1..Len(s) : i # j => s[i] # s[j]

Front(s) == SubSeq(s, 1, Len(s) - 1)

\* the one element of a one-element set: binds the value of a call once
The(S) == CHOOSE x \in S : TRUE

IndexOf(s, x) == CHOOSE i \in 1..Len(s) : s[i] = x /\ \A j \in 1..(i - 1) : s[j] # x

-----------------------------------------------------------------------------
(* Exact numbers: <<a, b>> is (a + b*sqrt(3)) / 2.                         *)

Whole(k) == <<2 * k, 0>>

Plus(m, n) == <<m[1] + n[1], m[2] + n[2]>>

\* cos of k*30 degrees, k in 0..11
Cos30(k) ==
    CASE k = 0 -> <<2, 0>>
      [] k \in {1, 11} -> <<0, 1>>
      [] k \in {2, 10} -> <<1, 0>>
      [] k \in {3, 9} -> <<0, 0>>
      [] k \in {4, 8} -> <<-1, 0>>
      [] k \in {5, 7} -> <<0, -1>>
      [] k = 6 -> <<-2, 0>>

\* sin(t) = cos(t - 90 degrees)
Sin30(k) == Cos30((k + 9) % 12)

\* 4 * (x^2 + y^2) of a vector, as <<rational part, sqrt(3) part>>
NormSq4(vec) ==
    <<vec[1][1] * vec[1][1] + 3 * vec[1][2] * vec[1][2]
        + vec[2][1] * vec[2][1] + 3 * vec[2][2] * vec[2][2],
      2 * vec[1][1] * vec[1][2] + 2 * vec[2][1] * vec[2][2]>>

Origin == <<Whole(0), Whole(0)>>

-----------------------------------------------------------------------------
(* The molecule.  A connection is the tuple parse_molecule appends:        *)
(* <<direction, "lone_pair">> or <<direction, bond_type, connected_atom>>. *)

Directions == {"right", "left", "above", "below"}

\* a direction place_atoms does not know
BadDirection == "up"

\* a label no statement defines
Undefined == "Q"

Ring ==
    [keys |-> <<"C1", "C2", "C3", "H1">>,
     charge |-> [a \in {"C1", "C2", "C3", "H1"} |-> ""],
     conn |-> [a \in {"C1", "C2", "C3", "H1"} |->
        CASE a = "C1" -> << <<"right", "=", "C2">>, <<"left", "-", "C3">>,
                            <<"above", "-", "H1">> >>
          [] a = "C2" -> << <<"right", "-", "C3">>, <<"left", "=", "C1">> >>
          [] a = "C3" -> << <<"right", "-", "C1">>, <<"left", "-", "C2">> >>
          [] a = "H1" -> << <<"below", "-", "C1">> >>]]

Chain ==
    [keys |-> <<"A", "B", "C">>,
     charge |-> [a \in {"A", "B", "C"} |-> ""],
     conn |-> [a \in {"A", "B", "C"} |->
        CASE a = "A" -> << <<"right", "-", "B">> >>
          [] a = "B" -> << <<"left", "-", "A">>, <<"right", "-", "C">> >>
          [] a = "C" -> << <<"left", "-", "B">> >>]]

Lone ==
    [keys |-> <<"N">>,
     charge |-> [a \in {"N"} |-> ""],
     conn |-> [a \in {"N"} |-> << <<"right", "lone_pair">> >>]]

Fixtures == {Ring, Chain, Lone}

FixtureOf(m) == CHOOSE f \in Fixtures : f.keys = m.keys

\* the places <<label, index>> of the molecule's connections
Slots(m) == UNION {{<<a, j>> : j \in 1..Len(m.conn[a])} : a \in Range(m.keys)}

Edited(m) == {s \in Slots(m) : m.conn[s[1]][s[2]] # FixtureOf(m).conn[s[1]][s[2]]}

IsBond(connection) == Len(connection) = 3

\* the connections one edit can put in place of c: another direction; for a
\* bond also another target, or a lone pair where the bond was
Variants(m, c) ==
    IF IsBond(c)
    THEN {<<d, c[2], c[3]>> : d \in (Directions \cup {BadDirection}) \ {c[1]}}
         \cup {<<c[1], c[2], t>> : t \in (Range(m.keys) \cup {Undefined}) \ {c[3]}}
         \cup {<<c[1], "lone_pair">>}
    ELSE {<<d, "lone_pair">> : d \in (Directions \cup {BadDirection}) \ {c[1]}}

-----------------------------------------------------------------------------
(* build_graph                                                             *)

build_graph(m) ==
    [a \in Range(m.keys) |->
        LET conns == m.conn[a]
            bonds == SelectSeq(conns, IsBond)
        IN  [i \in 1..Len(bonds) |-> bonds[i][3]]]

-----------------------------------------------------------------------------
(* find_cycle.  dfs threads path, visited and the call log through the     *)
(* recursion as the code's shared list and set do.  kind is "cycle",       *)
(* "None", or the exception raised.                                        *)

RECURSIVE dfs(_, _, _, _, _, _)
RECURSIVE dfs_for(_, _, _, _, _, _, _)

dfs(graph, node, parent, path, visited, calls) ==
    LET visited1 == visited \cup {node}
        calls1 == Append(calls, node)
    IN  IF node \notin DOMAIN graph
        THEN [kind |-> "KeyError", cycle |-> <<>>, path |-> path,
              visited |-> visited1, calls |-> calls1]
        ELSE dfs_for(graph, node, parent, 1, path, visited1, calls1)

dfs_for(graph, node, parent, i, path, visited, calls) ==
    IF i > Len(graph[node])
    THEN [kind |-> "None", cycle |-> <<>>, path |-> path,
          visited |-> visited, calls |-> calls]
    ELSE LET neighbor == graph[node][i] IN
         IF <<neighbor>> = parent
         THEN dfs_for(graph, node, parent, i + 1, path, visited, calls)
         ELSE IF neighbor \in visited
         THEN IF neighbor \in Range(path)
              THEN [kind |-> "cycle",
                    cycle |-> SubSeq(path, IndexOf(path, neighbor), Len(path)),
                    path |-> path, visited |-> visited, calls |-> calls]
              ELSE [kind |-> "ValueError", cycle |-> <<>>, path |-> path,
                    visited |-> visited, calls |-> calls]
         ELSE The({IF result.kind # "None"
                   THEN result
                   ELSE dfs_for(graph, node, parent, i + 1, Front(result.path),
                                result.visited, result.calls) :
                   result \in {dfs(graph, neighbor, <<node>>, Append(path, neighbor),
                                   visited, calls)}})

RECURSIVE find_cycle_from(_, _, _, _, _)

find_cycle_from(graph, keys, k, visited, calls) ==
    IF k > Len(keys)
    THEN [kind |-> "None", cycle |-> <<>>, calls |-> calls]
    ELSE IF keys[k] \in visited
    THEN find_cycle_from(graph, keys, k + 1, visited, calls)
    ELSE The({IF r.kind # "None"
              THEN [kind |-> r.kind, cycle |-> r.cycle, calls |-> r.calls]
              ELSE find_cycle_from(graph, keys, k + 1, r.visited, r.calls) :
              r \in {dfs(graph, keys[k], None, <<keys[k]>>, visited, calls)}})

find_cycle(graph, keys) == find_cycle_from(graph, keys, 1, {}, <<>>)

-----------------------------------------------------------------------------
(* place_atoms                                                             *)

\* lines 71-76: atom i of an n-cycle at angle 2*pi*i/n, radius 1
CirclePos(i, n) == <<Cos30((12 * i) \div n), Sin30((12 * i) \div n)>>

\* line 91 left out: every bond places its target
AlreadyPlaced_Never(connected_atom, pos) == FALSE

\* line 91
AlreadyPlaced(connected_atom, pos) == connected_atom \in DOMAIN pos

\* line 95
IsRadial(cyc, cur, direction) ==
    cyc # <<>> /\ cur \in Range(cyc) /\ direction = "above"

\* lines 98, 100: vec / norm.  Exact when norm is 1 (a ring atom, see
\* RingOnUnitCircle) and when vec lies along an axis; no other vec reaches it.
UnitVec(vec) ==
    IF NormSq4(vec) = <<4, 0>> THEN vec
    ELSE IF vec[2] = Whole(0) /\ vec[1][2] = 0
    THEN <<Whole(IF vec[1][1] > 0 THEN 1 ELSE -1), Whole(0)>>
    ELSE IF vec[1] = Whole(0) /\ vec[2][2] = 0
    THEN <<Whole(0), Whole(IF vec[2][1] > 0 THEN 1 ELSE -1)>>
    ELSE vec

\* lines 97-101 left out: an above bond of a ring atom is a plain grid step
RadialPos_PlainAbove(current_pos) ==
    <<current_pos[1], Plus(current_pos[2], Whole(1))>>

\* lines 97-103
RadialPos(current_pos) ==
    IF NormSq4(current_pos) # <<0, 0>>
    THEN <<Plus(current_pos[1], UnitVec(current_pos)[1]),
           Plus(current_pos[2], UnitVec(current_pos)[2])>>
    ELSE <<current_pos[1], Plus(current_pos[2], Whole(1))>>

\* lines 106-113
GridPos(current_pos, direction) ==
    CASE direction = "right" -> <<Plus(current_pos[1], Whole(1)), current_pos[2]>>
      [] direction = "left" -> <<Plus(current_pos[1], Whole(-1)), current_pos[2]>>
      [] direction = "above" -> <<current_pos[1], Plus(current_pos[2], Whole(1))>>
      [] direction = "below" -> <<current_pos[1], Plus(current_pos[2], Whole(-1))>>

\* line 118 run twice
Enqueue_Twice(q, connected_atom) == Append(Append(q, connected_atom), connected_atom)

\* line 118
Enqueue(q, connected_atom) == Append(q, connected_atom)

\* the input is edited: one connection not yet touched is replaced
Edit ==
    /\ pc = "input"
    /\ Cardinality(Edited(atoms)) < MaxEdits
    /\ \E s \in Slots(atoms) \ Edited(atoms) :
         \E v \in Variants(atoms, atoms.conn[s[1]][s[2]]) :
            atoms' = [atoms EXCEPT !.conn[s[1]][s[2]] = v]
    /\ UNCHANGED <<text, pc, cycle, entered, positions, queue, current,
                   idx, dequeued, err>>

\* lines 65-66
FindCycle ==
    /\ pc = "input"
    /\ \E r \in {find_cycle(build_graph(atoms), atoms.keys)} :
         /\ entered' = r.calls
         /\ cycle' = r.cycle
         /\ IF r.kind \in {"KeyError", "ValueError"}
            THEN pc' = "error" /\ err' = <<"find_cycle", r.kind>>
            ELSE pc' = "seed" /\ err' = err
    /\ UNCHANGED <<text, atoms, positions, queue, current, idx, dequeued>>

\* lines 67-83
Seed ==
    /\ pc = "seed"
    /\ IF cycle # <<>>
       THEN LET n == Len(cycle) IN
            /\ positions' = [a \in Range(cycle) |->
                                CirclePos(IndexOf(cycle, a) - 1, n)]
            /\ queue' = cycle
            /\ pc' = "while"
            /\ err' = err
       ELSE IF atoms.keys = <<>>
       THEN /\ pc' = "error"
            /\ err' = <<"place_atoms", "StopIteration">>
            /\ UNCHANGED <<positions, queue>>
       ELSE LET start_atom == atoms.keys[1] IN
            /\ positions' = (start_atom :> Origin)
            /\ queue' = <<start_atom>>
            /\ pc' = "while"
            /\ err' = err
    /\ UNCHANGED <<text, atoms, cycle, entered, current, idx, dequeued>>

\* lines 84-87: the loop test, popleft, and the lookup atoms[current]
Popleft ==
    /\ pc = "while"
    /\ queue # <<>>
    /\ current' = Head(queue)
    /\ queue' = Tail(queue)
    /\ dequeued' = Append(dequeued, Head(queue))
    /\ idx' = 1
    /\ IF Head(queue) \notin Range(atoms.keys)
       THEN pc' = "error" /\ err' = <<"place_atoms", "KeyError">>
       ELSE pc' = "for" /\ err' = err
    /\ UNCHANGED <<text, atoms, cycle, entered, positions>>

\* lines 87-118: one pass of the for loop
Connection ==
    /\ pc = "for"
    /\ LET conns == atoms.conn[current]
           connection == conns[idx]
           current_pos == positions[current]
           next_pc == IF idx = Len(conns) THEN "while" ELSE "for"
       IN  IF ~IsBond(connection) \/ AlreadyPlaced(connection[3], positions)
           THEN /\ pc' = next_pc
                /\ UNCHANGED <<positions, queue, err>>
           ELSE IF IsRadial(cycle, current, connection[1])
           THEN /\ positions' = (connection[3] :> RadialPos(current_pos)) @@ positions
                /\ queue' = Enqueue(queue, connection[3])
                /\ pc' = next_pc
                /\ err' = err
           ELSE IF connection[1] \in Directions
           THEN /\ positions' = (connection[3] :> GridPos(current_pos, connection[1]))
                                    @@ positions
                /\ queue' = Enqueue(queue, connection[3])
                /\ pc' = next_pc
                /\ err' = err
           ELSE /\ pc' = "error"
                /\ err' = <<"place_atoms", "ValueError">>
                /\ UNCHANGED <<positions, queue>>
    /\ idx' = idx + 1
    /\ UNCHANGED <<text, atoms, cycle, entered, current, dequeued>>

\* line 120
Return ==
    /\ pc = "while"
    /\ queue = <<>>
    /\ pc' = "done"
    /\ UNCHANGED <<text, atoms, cycle, entered, positions, queue, current,
                   idx, dequeued, err>>

-----------------------------------------------------------------------------
(* parse_molecule.  input_str is a sequence of tokens: a punctuation       *)
(* character, or a run of word characters (\w) that the edits keep whole.  *)
(* Adjacent word tokens read as one longer word, as their characters do.   *)

Punctuation == {";", "[", "]", "{", "}", ",", ":", "-", "=", "+", " "}

IsWord(t) == t \notin Punctuation

RECURSIVE Join(_)
Join(tokens) == IF tokens = <<>> THEN "" ELSE Head(tokens) \o Join(Tail(tokens))

\* str.split(sep) for a one-character sep
RECURSIVE Split(_, _)
Split(tokens, sep) ==
    IF \A i \in 1..Len(tokens) : tokens[i] # sep
    THEN <<tokens>>
    ELSE LET i == IndexOf(tokens, sep) IN
         <<SubSeq(tokens, 1, i - 1)>> \o Split(SubSeq(tokens, i + 1, Len(tokens)), sep)

\* str.strip()
RECURSIVE Strip(_)
Strip(tokens) ==
    IF tokens = <<>> THEN tokens
    ELSE IF Head(tokens) = " " THEN Strip(Tail(tokens))
    ELSE IF tokens[Len(tokens)] = " " THEN Strip(Front(tokens))
    ELSE tokens

\* the length of the run of word tokens a line starts with: (\w+), greedy
WordRun(line) ==
    IF \A i \in 1..Len(line) : IsWord(line[i]) THEN Len(line)
    ELSE (CHOOSE i \in 1..Len(line) :
            ~IsWord(line[i]) /\ \A j \in 1..(i - 1) : IsWord(line[j])) - 1

\* the places of "]" in rest after place i
Closers(rest, i) == {k \in (i + 1)..Len(rest) : rest[k] = "]"}

Max(S) == CHOOSE x \in S : \A y \in S : y <= x

Min(S) == CHOOSE x \in S : \A y \in S : x <= y

\* line 13: re.match(r'(\w+)(\{.*?\})?\[(.*)\]', line).  The match starts at the
\* start of the line and need not reach its end; .*? stops at the first "}"
\* that "[" follows with a "]" somewhere after it; .* runs to the last "]".
Match(line) ==
    LET w == WordRun(line)
        rest == SubSeq(line, w + 1, Len(line))
        ends == {j \in 2..(Len(rest) - 1) :
                    rest[j] = "}" /\ rest[j + 1] = "[" /\ Closers(rest, j + 1) # {}}
    IN  IF w = 0 \/ rest = <<>> THEN [ok |-> FALSE]
        ELSE IF rest[1] = "[" /\ Closers(rest, 1) # {}
        THEN [ok |-> TRUE, label |-> Join(SubSeq(line, 1, w)), charge |-> "",
              connections_str |-> SubSeq(rest, 2, Max(Closers(rest, 1)) - 1)]
        ELSE IF rest[1] = "{" /\ ends # {}
        THEN [ok |-> TRUE, label |-> Join(SubSeq(line, 1, w)),
              charge |-> Join(SubSeq(rest, 1, Min(ends))),
              connections_str |->
                  SubSeq(rest, Min(ends) + 2, Max(Closers(rest, Min(ends) + 1)) - 1)]
        ELSE [ok |-> FALSE]

\* lines 20-26: one connection token; <<>> stands for the ValueError that the
\* unpacking of conn.split(':') raises when it has not three parts
ParseConn(token) ==
    LET conn == Strip(token)
        n == Len(conn)
        parts == Split(conn, ":")
    IN  IF n >= 2 /\ conn[n - 1] = ":" /\ conn[n] = ":"
        THEN <<Join(SubSeq(conn, 1, n - 2)), "lone_pair">>
        ELSE IF Len(parts) = 3
        THEN <<Join(parts[1]), Join(parts[2]), Join(parts[3])>>
        ELSE <<>>

\* lines 18-26
ParseConnections(connections_str) ==
    LET tokens == Split(connections_str, ",") IN
    [i \in 1..Len(tokens) |-> ParseConn(tokens[i])]

\* line 27: atoms[atom_label] = {...}; a dict keeps the place of a key it has
Store(m, label, charge, connections) ==
    [keys |-> IF label \in Range(m.keys) THEN m.keys ELSE Append(m.keys, label),
     charge |-> (label :> charge) @@ m.charge,
     conn |-> (label :> connections) @@ m.conn]

\* lines 8-28; kind is "atoms", or the exception raised
RECURSIVE parse_lines(_, _, _)
parse_lines(lines, k, m) ==
    IF k > Len(lines) THEN [kind |-> "atoms", atoms |-> m]
    ELSE LET line == Strip(lines[k])
             match == Match(line)
         IN  IF line = <<>> \/ ~match.ok
             THEN parse_lines(lines, k + 1, m)
             ELSE LET connections == ParseConnections(match.connections_str) IN
                  IF \E i \in 1..Len(connections) : connections[i] = <<>>
                  THEN [kind |-> "ValueError", atoms |-> m]
                  ELSE parse_lines(lines, k + 1,
                                   Store(m, match.label, match.charge, connections))

parse_molecule(input_str) ==
    parse_lines(Split(input_str, ";"), 1,
                [keys |-> <<>>, charge |-> <<>>, conn |-> <<>>])

\* the fixture texts: A[right:-:B];B[left:-:A] and N{+}[above::]
Texts ==
    { <<"A", "[", "right", ":", "-", ":", "B", "]", ";",
        "B", "[", "left", ":", "-", ":", "A", "]">>,
      <<"N", "{", "+", "}", "[", "above", ":", ":", "]">> }

TextOf(t) == CHOOSE f \in Texts : Len(f) = Len(t)

Replaced(t) == {i \in 1..Len(t) : t[i] # TextOf(t)[i]}

\* the tokens an edit can write
Alphabet == {"A", "B", "right", "[", "]", "{", "}", ";", ",", ":", "-", " "}

\* the text is edited: one token not yet touched is replaced
EditText ==
    /\ pc = "text"
    /\ Cardinality(Replaced(text)) < MaxTextEdits
    /\ \E i \in (1..Len(text)) \ Replaced(text) :
         \E t \in Alphabet \ {text[i]} :
            text' = [text EXCEPT ![i] = t]
    /\ UNCHANGED <<pc, atoms, cycle, entered, positions, queue, current, idx,
                   dequeued, err>>

\* lines 6-28
Parse ==
    /\ pc = "text"
    /\ \E r \in {parse_molecule(text)} :
         IF r.kind = "atoms"
         THEN atoms' = r.atoms /\ pc' = "input" /\ err' = err
         ELSE atoms' = atoms /\ pc' = "error" /\ err' = <<"parse_molecule", r.kind>>
    /\ UNCHANGED <<text, cycle, entered, positions, queue, current, idx, dequeued>>

-----------------------------------------------------------------------------

Init ==
    /\ text = <<>>
    /\ pc = "input"
    /\ atoms \in Fixtures
    /\ cycle = <<>>
    /\ entered = <<>>
    /\ positions = <<>>
    /\ queue = <<>>
    /\ current = Unbound
    /\ idx = 0
    /\ dequeued = <<>>
    /\ err = <<>>

\* place_atoms, step by step
Run == FindCycle \/ Seed \/ Popleft \/ Connection \/ Return

Next == Edit \/ Run

Spec == Init /\ [][Next]_vars

\* one synchronous call chain: a step that can be taken is taken
LiveSpec == Init /\ [][Next]_vars /\ WF_vars(Run)

InitParse ==
    /\ text \in Texts
    /\ pc = "text"
    /\ atoms = [keys |-> <<>>, charge |-> <<>>, conn |-> <<>>]
    /\ cycle = <<>>
    /\ entered = <<>>
    /\ positions = <<>>
    /\ queue = <<>>
    /\ current = Unbound
    /\ idx = 0
    /\ dequeued = <<>>
    /\ err = <<>>

NextParse == EditText \/ Parse \/ Run

SpecParse == InitParse /\ [][NextParse]_vars

-----------------------------------------------------------------------------
(* Vocabulary of the properties.                                           *)

Bonds(m) == {s \in Slots(m) : IsBond(m.conn[s[1]][s[2]])}

Target(m, s) == m.conn[s[1]][s[2]][3]

Direction(m, s) == m.conn[s[1]][s[2]][1]

\* every bond names an atom that has a statement
Defined(m) == \A s \in Bonds(m) : Target(m, s) \in Range(m.keys)

\* a declares a bond to b
Declares(m, a, b) == \E s \in Bonds(m) : s[1] = a /\ Target(m, s) = b

\* a and b are a bonded pair, whichever side declared the bond
Bonded(m, a, b) == Declares(m, a, b) \/ Declares(m, b, a)

\* the sequences of three or more distinct atom labels
Rounds(m) ==
    UNION {{r \in [1..k -> Range(m.keys)] : NoDup(r)} : k \in 3..Len(m.keys)}

Follower(r, i) == r[(i % Len(r)) + 1]

\* the adjacency mapping build_graph gives holds a simple cycle
HasDeclaredCycle(m) ==
    \E r \in Rounds(m) : \A i \in 1..Len(r) : Declares(m, r[i], Follower(r, i))

\* the bonds, read as unordered pairs, hold a simple cycle
HasBondedCycle(m) ==
    \E r \in Rounds(m) : \A i \in 1..Len(r) : Bonded(m, r[i], Follower(r, i))

\* a tree or forest of single bonds: no ring, no atom bonded to itself, no
\* pair declared twice from the same side
Acyclic(m) ==
    /\ ~HasBondedCycle(m)
    /\ \A s \in Bonds(m) : Target(m, s) # s[1]
    /\ \A s, t \in Bonds(m) :
          (s[1] = t[1] /\ Target(m, s) = Target(m, t)) => s = t

FindCycleReturned == pc \in {"seed", "while", "for", "done"}
                     \/ (pc = "error" /\ err[1] = "place_atoms")

\* C1: when place_atoms returns, every atom label of the molecule has a position.
C1_EveryAtomPlaced ==
    pc = "done" => \A a \in Range(atoms.keys) : a \in DOMAIN positions

\* C2: on a graph that holds a simple cycle find_cycle returns a sequence
\* without repeats whose consecutive elements, wraparound included, are bonded
\* pairs: a simple cycle of the graph, of that cycle's length.
C2_CycleReturned ==
    (pc # "input" /\ Defined(atoms) /\ HasDeclaredCycle(atoms)) =>
        /\ FindCycleReturned
        /\ cycle # <<>>
        /\ NoDup(cycle)
        /\ \A i \in 1..Len(cycle) : Bonded(atoms, cycle[i], Follower(cycle, i))

\* the molecule with every bond declared from both sides: each atom's
\* statement gains, after its own connections, a bond back to every atom that
\* declares one to it and gets none in return
Opposite(d) ==
    CASE d = "right" -> "left" [] d = "left" -> "right"
      [] d = "above" -> "below" [] d = "below" -> "above" [] OTHER -> d

RECURSIVE BackBonds(_, _, _)
BackBonds(m, b, k) ==
    IF k > Len(m.keys) THEN <<>>
    ELSE LET a == m.keys[k]
             toB(c) == IsBond(c) /\ c[3] = b
             mine == SelectSeq(m.conn[a], toB)
         IN  (IF ~Declares(m, b, a)
              THEN [i \in 1..Len(mine) |-> <<Opposite(mine[i][1]), mine[i][2], a>>]
              ELSE <<>>) \o BackBonds(m, b, k + 1)

Symmetric(m) ==
    [keys |-> m.keys,
     conn |-> [b \in Range(m.keys) |-> m.conn[b] \o BackBonds(m, b, 1)]]

\* C3: a molecule whose bonds are declared from one side only and the same
\* molecule with every bond declared from both sides get the same outcome of
\* find_cycle: a cycle for both or for neither, and no exception in either.
C3_UndirectedCycles ==
    (pc # "input" /\ Defined(atoms)) =>
        LET both == find_cycle(build_graph(Symmetric(atoms)), atoms.keys) IN
        /\ FindCycleReturned
        /\ both.kind \in {"cycle", "None"}
        /\ (cycle # <<>>) <=> (both.kind = "cycle")

\* C4: on a molecule whose bonds, read as unordered pairs, hold no cycle,
\* find_cycle returns None without raising and place_atoms puts the first atom
\* of the molecule at (0, 0).
C4_NoCycleFallback ==
    (pc # "input" /\ Defined(atoms) /\ Acyclic(atoms)) =>
        /\ FindCycleReturned
        /\ cycle = <<>>
        /\ pc \in {"while", "for", "done"} =>
              /\ atoms.keys[1] \in DOMAIN positions
              /\ positions[atoms.keys[1]] = Origin

\* C5: a molecule with a bond to a label that has no statement never gets a
\* position map: the run ends in an error.
C5_UndefinedReference ==
    ~Defined(atoms) => pc # "done"

\* C6: a molecule with a bond whose direction is none of left, right, above,
\* below never gets a position map: place_atoms fails.
\* Stated for the case the claim singles out: the bond belongs to an atom the
\* loop has visited, so it was examined.
C6_UnknownDirection ==
    (\E s \in Bonds(atoms) :
        Direction(atoms, s) \notin Directions /\ s[1] \in Range(dequeued))
    => pc # "done"

\* C8: a position is write-once: a label that has a position keeps that
\* position in every later state and in the returned map.
C8_WriteOnce ==
    [][\A a \in DOMAIN positions :
          a \in DOMAIN positions' /\ positions'[a] = positions[a]]_vars

\* where the code would put the target of the bond at slot s, seen from the
\* position its owner has
WouldPlace(s) ==
    IF IsRadial(cycle, s[1], Direction(atoms, s))
    THEN RadialPos(positions[s[1]])
    ELSE GridPos(positions[s[1]], Direction(atoms, s))

\* the run has returned, and some bond of a visited atom points at another
\* atom, which was placed elsewhere than this bond would place it
C8_Witness ==
    /\ pc = "done"
    /\ \E s \in Bonds(atoms) :
          /\ s[1] \in Range(dequeued)
          /\ Target(atoms, s) \in DOMAIN positions \ {s[1]}
          /\ Direction(atoms, s) \in Directions
          /\ WouldPlace(s) # positions[Target(atoms, s)]

\* the grid offsets the layout contract gives
Offset(d) ==
    CASE d = "right" -> <<Whole(1), Whole(0)>>
      [] d = "left" -> <<Whole(-1), Whole(0)>>
      [] d = "above" -> <<Whole(0), Whole(1)>>
      [] d = "below" -> <<Whole(0), Whole(-1)>>

Shift(p, v) == <<Plus(p[1], v[1]), Plus(p[2], v[2])>>

\* where a bond of direction d, declared by an atom at p, puts its target:
\* for an above bond of a cycle atom p plus the unit vector from the origin
\* through p, which is p itself for a point of the unit circle
Claimed(p, d, inCycle) ==
    IF inCycle /\ d = "above" /\ p # Origin
    THEN Shift(p, p)
    ELSE Shift(p, Offset(d))

\* every step of the loop that assigns a position assigns it to the target of
\* the bond under examination, which had none, at the claimed place
PlacementStep ==
    (pc = "for" /\ positions' # positions) =>
        LET c == atoms.conn[current][idx] IN
        /\ IsBond(c)
        /\ c[3] \notin DOMAIN positions
        /\ DOMAIN positions' = DOMAIN positions \cup {c[3]}
        /\ current \in Range(cycle) => NormSq4(positions[current]) = <<4, 0>>
        /\ positions'[c[3]] = Claimed(positions[current], c[1], current \in Range(cycle))

\* the bonds that cycle atoms declare to b
CycleBondsTo(b) ==
    {s \in Bonds(atoms) : s[1] \in Range(cycle) /\ Target(atoms, s) = b}

\* s comes before t in the order the loop examines the bonds of cycle atoms
Before(s, t) ==
    \/ IndexOf(cycle, s[1]) < IndexOf(cycle, t[1])
    \/ s[1] = t[1] /\ s[2] <= t[2]

FirstCycleBondTo(b) ==
    CHOOSE s \in CycleBondsTo(b) : \A t \in CycleBondsTo(b) : Before(s, t)

\* the atoms outside the cycle that have a position and an above bond from a
\* cycle atom
RingSubstituents ==
    {b \in DOMAIN positions \ Range(cycle) :
        \E s \in CycleBondsTo(b) : Direction(atoms, s) = "above"}

\* C9 as claimed, second sentence: every atom outside the cycle to which a
\* cycle atom declares an above bond lies radially outward from a cycle atom.
C9_AlwaysRadial ==
    \A b \in RingSubstituents :
        \E a \in Range(cycle) : positions[b] = Shift(positions[a], positions[a])

\* C9 as amended, second sentence: such an atom is placed from a cycle atom by
\* the first bond to it in cycle order, then declaration order: radially
\* outward when that bond is above, by that bond's grid offset otherwise.
PlacedByFirstCycleBond ==
    \A b \in RingSubstituents :
        LET s == FirstCycleBondTo(b) IN
        positions[b] = Claimed(positions[s[1]], Direction(atoms, s), TRUE)

\* C9 (amended): every assignment of the loop follows the placement rule, and
\* a ring substituent is placed by the first cycle bond that reaches it.
C9_Placement == [][PlacementStep]_vars /\ []PlacedByFirstCycleBond

\* the run has returned with a ring of three atoms and a ring substituent
\* that a grid bond placed, away from every radial place, before an above
\* bond of a cycle atom could
C9_Witness ==
    /\ pc = "done"
    /\ Len(cycle) >= 3
    /\ \E b \in RingSubstituents :
          /\ Direction(atoms, FirstCycleBondTo(b)) \in Directions \ {"above"}
          /\ \A a \in Range(cycle) : positions[b] # Shift(positions[a], positions[a])

Finished == pc \in {"done", "error"}

\* dfs is entered at most once per label; a label is put on the queue at most
\* once (what was ever put on it is dequeued \o queue) and taken off at most
\* once; the loop has run no more often than there are positioned atoms
AtMostOnce ==
    /\ NoDup(entered)
    /\ NoDup(dequeued \o queue)
    /\ Len(dequeued) <= Cardinality(DOMAIN positions)

\* C10: find_cycle and the loop of place_atoms visit every label at most
\* once, and every run ends, with a result or an error.
C10_Terminates == []AtMostOnce /\ <>Finished

\* the run has returned after a cycle was found and the loop visited atoms
\* inside and outside the cycle
C10_Witness ==
    /\ pc = "done"
    /\ Len(cycle) >= 3
    /\ Len(entered) >= 3
    /\ Len(dequeued) > Len(cycle)

\* the statements of the text: what lies between the semicolons, stripped
Statements(t) == {Strip(Split(t, ";")[i]) : i \in 1..Len(Split(t, ";"))}

Colons(conn) == Cardinality({i \in 1..Len(conn) : conn[i] = ":"})

\* Label Charge? [ Connections ]: a label, a charge in braces or none, and up
\* to the last token, which is "]", connections separated by commas, each with
\* exactly two colons (direction:: or direction:symbol:target)
WellFormed(line) ==
    LET w == WordRun(line)
        rest == SubSeq(line, w + 1, Len(line))
        opens == {o \in 1..Len(rest) :
                    /\ rest[o] = "["
                    /\ \/ o = 1
                       \/ o >= 3 /\ rest[1] = "{" /\ rest[o - 1] = "}"}
    IN  /\ w >= 1
        /\ Len(rest) >= 2
        /\ rest[Len(rest)] = "]"
        /\ \E o \in opens :
              LET body == Split(SubSeq(rest, o + 1, Len(rest) - 1), ",") IN
              \A i \in 1..Len(body) : Colons(Strip(body[i])) = 2

ParseReturned == pc # "text" /\ ~(pc = "error" /\ err[1] = "parse_molecule")

\* C7: parse_molecule returns a molecule only when every statement that is
\* not blank matches the atom grammar and every connection token has one of
\* the two forms.
C7_MalformedRejected ==
    ParseReturned => \A line \in Statements(text) : line = <<>> \/ WellFormed(line)

=============================================================================
